---- MODULE Spec2Model ----
(***************************************************************************)
(* Two FastAPI services over one Postgres table each, written with the     *)
(* Tortoise ORM:                                                           *)
(*   01-blog-views/worker.py : table "posts",   get_post, view_post        *)
(*   02-game-shop/worker.py  : table "players", get_info, upgrade_level    *)
(* They are two programs that share nothing: a behaviour is a run of one   *)
(* of them (app), against its own table.                                   *)
(* A table is the set of its rows.  Every awaited ORM call is one store    *)
(* round-trip: the store executes it as one atomic statement, and requests *)
(* interleave only between two round-trips.  A request in flight is a      *)
(* task; a request acts on the state first with its first round-trip,      *)
(* which is where its task begins, and a task slot is reused by a later    *)
(* request once it has responded.                                          *)
(***************************************************************************)
EXTENDS Integers, FiniteSets, Sequences, TLC

(* ---------------- bounds of the model ---------------- *)
NumTasks == 2        \* requests in flight at the same time
MaxCalls == 4        \* requests issued in one behaviour of Spec
MaxStarts == 2       \* times the startup code runs (the service is restarted)
MaxInitViews == 1    \* views already stored when the blog service starts
MaxInitLeft == 1     \* debits the player stored before the shop starts can still afford
SeqCalls == 100      \* requests issued by the single caller of SeqSpec

(* ---------------- program constants ---------------- *)
COST == 150

Tasks == 1..NumTasks
PostIds == {1, 2}        \* path parameter post_id;   only id 1 is ever created
PlayerIds == {1, 2}      \* path parameter player_id; only id 1 is ever created

(* ---------------- the ORM models ---------------- *)
PostFields == {"id", "title", "content", "views"}
PlayerFields == {"id", "name", "money", "level"}

\* The row lifespan creates in each service.
NewPost == [id |-> 1, title |-> "Example blog post",
            content |-> "Hello! This is a blog post", views |-> 0]
NewPlayer == [id |-> 1, name |-> "Alice", money |-> 1000, level |-> 1]

(* ---------------- Tortoise query building ---------------- *)
\* A filter keyword is <field><lookup>; the lookup is joined to the field by a
\* double underscore.  These are the lookups the handlers could mean.
Lookups == {"", "__not", "__gt", "__gte", "__lt", "__lte"}

\* The filter keywords a model with these fields accepts.
FilterKeys(fields) == {f \o l : f \in fields, l \in Lookups}

\* A filter is a set of <<keyword, value>>.  A keyword the model does not know
\* makes the query raise FieldError when it is built, before it reaches the store.
FilterRaises(fields, filter) == \E kv \in filter : kv[1] \notin FilterKeys(fields)

KeyField(fields, key) == CHOOSE f \in fields : \E l \in Lookups : f \o l = key
KeyLookup(fields, key) == CHOOSE l \in Lookups : KeyField(fields, key) \o l = key

Holds(fields, row, kv) ==
    LET f == KeyField(fields, kv[1])
        l == KeyLookup(fields, kv[1])
    IN  CASE l = ""      -> row[f] = kv[2]
          [] l = "__not" -> row[f] # kv[2]
          [] l = "__gt"  -> row[f] > kv[2]
          [] l = "__gte" -> row[f] >= kv[2]
          [] l = "__lt"  -> row[f] < kv[2]
          [] l = "__lte" -> row[f] <= kv[2]

\* The rows of a table a (well-formed) filter selects.
Matching(fields, table, filter) ==
    {r \in table : \A kv \in filter : Holds(fields, r, kv)}

(* ---------------- the store's statements ---------------- *)
\* A bug: an upsert (INSERT ... ON CONFLICT DO UPDATE) in place of the INSERT.
Create_upsert(table, row) ==
    [raised |-> "", table |-> {r \in table : r.id # row.id} \cup {row}]
\* Model.create(**row): INSERT; the primary key is unique.
Create(table, row) ==
    IF \E r \in table : r.id = row.id
    THEN [raised |-> "IntegrityError", table |-> table]
    ELSE [raised |-> "", table |-> table \cup {row}]

\* Model.get(**filter) and Model.filter(**filter).get(): SELECT of exactly one row.
Get(fields, table, filter) ==
    LET hit == Matching(fields, table, filter)
    IN  IF FilterRaises(fields, filter) THEN [raised |-> "FieldError", rows |-> {}]
        ELSE IF hit = {} THEN [raised |-> "DoesNotExist", rows |-> {}]
        ELSE IF Cardinality(hit) > 1 THEN [raised |-> "MultipleObjectsReturned", rows |-> {}]
        ELSE [raised |-> "", rows |-> hit]

\* Model.filter(**filter).update(...): one UPDATE ... SET ... WHERE ...; set[r] is
\* the SET clause, evaluated by the store on the row r as it is stored now.
\* The result is the table afterwards and the number of rows affected.
Update(fields, table, filter, set) ==
    IF FilterRaises(fields, filter)
    THEN [raised |-> "FieldError", rows |-> 0, table |-> table]
    ELSE LET hit == Matching(fields, table, filter)
         IN  [raised |-> "", rows |-> Cardinality(hit),
              table |-> (table \ hit) \cup {set[r] : r \in hit}]

(* ---------------- the statements of the handlers ---------------- *)
\* A bug: Post.all().update(...), the filter on the id forgotten.
view_post_filter_all(post_id) == {}
\* view_post: Post.filter(id=post_id).update(views=F("views") + 1)
view_post_filter(post_id) == {<<"id", post_id>>}
\* A bug: update(views=1), the F() expression forgotten.
view_post_set_literal(r) == [r EXCEPT !.views = 1]
\* A bug: update(views=F("views") + 2).
view_post_set_twice(r) == [r EXCEPT !.views = @ + 2]
view_post_set(r) == [r EXCEPT !.views = @ + 1]
\* A bug: update_or_create, which inserts the post when no row has the id.
view_post_update_or_create(table, post_id) ==
    IF \E r \in table : r.id = post_id
    THEN Update(PostFields, table, view_post_filter(post_id),
                [r \in table |-> view_post_set(r)])
    ELSE [raised |-> "", rows |-> 1,
          table |-> table \cup {[id |-> post_id, title |-> "", content |-> "",
                                 views |-> 1]}]
view_post_update(table, post_id) ==
    Update(PostFields, table, view_post_filter(post_id),
           [r \in table |-> view_post_set(r)])

\* upgrade_level: Player.filter(id=player_id, money_gte=COST)
\*                      .update(level=F("level") + 1, money=F("money") - COST)
\* The second keyword is written with ONE underscore: "money_gte" is no filter
\* keyword of Player ("money__gte" is), so FilterRaises holds of this filter.
\* A bug: filter(id=player_id) alone, the condition on money dropped.
upgrade_level_filter_id_only(player_id) == {<<"id", player_id>>}
upgrade_level_filter(player_id) == {<<"id", player_id>>, <<"money_gte", COST>>}
upgrade_level_set(r) == [r EXCEPT !.level = @ + 1, !.money = @ - COST]
upgrade_level_update(table, player_id) ==
    Update(PlayerFields, table, upgrade_level_filter(player_id),
           [r \in table |-> upgrade_level_set(r)])

\* The JSON bodies the handlers return.
\* A bug: title and content swapped.
get_post_body_swapped(post) ==
    [post_id |-> post.id, title |-> post.content, content |-> post.title,
     views |-> post.views]
get_post_body(post) ==
    [post_id |-> post.id, title |-> post.title, content |-> post.content,
     views |-> post.views]
\* A bug: the value as it was before the increment.
view_post_body_before(post) == [current_views |-> post.views - 1]
\* A bug: the wrong column.
view_post_body_id(post) == [current_views |-> post.id]
view_post_body(post) == [current_views |-> post.views]
get_info_body(player) ==
    [name |-> player.name, money |-> player.money, level |-> player.level]
NotEnoughMoney == [error |-> "Not enough money"]
upgrade_level_body(player) ==
    [user_id |-> player.id, money |-> player.money, level |-> player.level]

\* An exception no handler catches: the request fails with it.
Raised(e) == [raised |-> e]

(* ---------------- state ---------------- *)
VARIABLES
    app,        \* the program this behaviour runs: "blog" or "shop"
    posts,      \* table "posts": the set of its rows
    players,    \* table "players": the set of its rows
    starts,     \* how many times the program ran its lifespan startup
    startup,    \* the last line the startup printed
    task,       \* task[t]: the request in slot t, its position and its response
    hist,       \* history: requests issued and their outcomes, per row id, and
                \* the table as the last startup found it
    posts0,     \* table "posts" as the blog service found it before it first started
    players0    \* table "players" as the shop service found it before it first started

vars == <<app, posts, players, starts, startup, task, hist, posts0, players0>>

Handlers == {"get_post", "view_post", "get_info", "upgrade_level"}
Service(h) == IF h \in {"get_post", "view_post"} THEN "blog" ELSE "shop"
Args(h) == IF Service(h) = "blog" THEN PostIds ELSE PlayerIds

NoResp == [pending |-> TRUE]
\* handler, arg: the request; pc: "get" while its second round-trip is due;
\* rows: rows_updated; resp: the response.  History of its first round-trip:
\* seen, wrote: the rows with id = arg as stored just before and just after it.
Idle == [handler |-> "", arg |-> 0, pc |-> "idle", seen |-> {}, wrote |-> {},
         rows |-> 0, resp |-> NoResp]

\* Rows an earlier run of the services can have left in the persistent store:
\* the post after some views, the player after some debits of COST.
InitDebits ==
    {k \in 0..(NewPlayer.money \div COST) :
        (NewPlayer.money - k * COST) \div COST <= MaxInitLeft}
InitPosts == {{}} \cup {{[NewPost EXCEPT !.views = v]} : v \in 0..MaxInitViews}
InitPlayers ==
    {{}} \cup {{[NewPlayer EXCEPT !.money = @ - k * COST, !.level = @ + k]} :
               k \in InitDebits}

Zero(ids) == [i \in ids |-> 0]

Init ==
    /\ app \in {"blog", "shop"}
    /\ posts \in IF app = "blog" THEN InitPosts ELSE {{}}
    /\ players \in IF app = "shop" THEN InitPlayers ELSE {{}}
    /\ posts0 = posts
    /\ players0 = players
    /\ starts = 0
    /\ startup = ""
    /\ task = [t \in Tasks |-> Idle]
    /\ hist = [calls |-> 0, view |-> Zero(PostIds), upgrade |-> Zero(PlayerIds),
               affected |-> Zero(PlayerIds), ok |-> Zero(PlayerIds),
               rejected |-> Zero(PlayerIds), found |-> {}]

(* ---------------- startup ---------------- *)
\* lifespan of 01-blog-views: create the test post; any exception is swallowed.
lifespan_blog ==
    /\ app = "blog"
    /\ starts < MaxStarts
    /\ LET c == Create(posts, NewPost)
       IN  /\ posts' = c.table
           /\ startup' = IF c.raised = "" THEN "Test blog post created"
                                          ELSE "Blog post already exists"
    /\ starts' = starts + 1
    /\ hist' = [hist EXCEPT !.found = posts]
    /\ UNCHANGED <<app, players, task, posts0, players0>>

\* lifespan of 02-game-shop: create the test user; any exception is swallowed.
lifespan_shop ==
    /\ app = "shop"
    /\ starts < MaxStarts
    /\ LET c == Create(players, NewPlayer)
       IN  /\ players' = c.table
           /\ startup' = IF c.raised = "" THEN "Test user created"
                                          ELSE "User already exists"
    /\ starts' = starts + 1
    /\ hist' = [hist EXCEPT !.found = players]
    /\ UNCHANGED <<app, posts, task, posts0, players0>>

(* ---------------- requests ---------------- *)
\* The routing layer of the running program runs its handler h in a free task,
\* once the startup has run.
\* Free slots are interchangeable: a request takes the first one.
Free(t) == task[t].pc \in {"idle", "done"}
Accepts(t, h, cap) ==
    /\ Free(t)
    /\ \A u \in Tasks : u < t => ~Free(u)
    /\ app = Service(h)
    /\ starts >= 1
    /\ hist.calls < cap

Begin(h, a) == [Idle EXCEPT !.handler = h, !.arg = a]

\* get_post: post = await Post.get(id=post_id); return its fields.
get_post(t, post_id, cap) ==
    /\ Accepts(t, "get_post", cap)
    /\ LET g == Get(PostFields, posts, {<<"id", post_id>>})
       IN  task' = [task EXCEPT ![t] =
              [Begin("get_post", post_id) EXCEPT
                  !.pc = "done", !.seen = g.rows, !.wrote = g.rows,
                  !.resp = IF g.raised # "" THEN Raised(g.raised)
                           ELSE get_post_body(CHOOSE r \in g.rows : TRUE)]]
    /\ hist' = [hist EXCEPT !.calls = @ + 1]
    /\ UNCHANGED <<app, posts, players, starts, startup, posts0, players0>>

\* view_post, first round-trip: the UPDATE; its row count is not looked at.
view_post_1(t, post_id, cap) ==
    /\ Accepts(t, "view_post", cap)
    /\ LET u == view_post_update(posts, post_id)
       IN  /\ posts' = u.table
           /\ task' = [task EXCEPT ![t] =
                 [Begin("view_post", post_id) EXCEPT
                     !.pc = IF u.raised # "" THEN "done" ELSE "get",
                     !.seen = {r \in posts : r.id = post_id},
                     !.wrote = {r \in u.table : r.id = post_id},
                     !.rows = u.rows,
                     !.resp = IF u.raised # "" THEN Raised(u.raised) ELSE NoResp]]
    /\ hist' = [hist EXCEPT !.calls = @ + 1, !.view[post_id] = @ + 1]
    /\ UNCHANGED <<app, players, starts, startup, posts0, players0>>

\* view_post, second round-trip: post = await Post.filter(id=post_id).get()
\* A bug: the fetch held back while another request on the same row is in
\* flight, as an application-level lock taken in the wrong order would do.
view_post_2_waits(t) ==
    /\ task[t].handler = "view_post" /\ task[t].pc = "get"
    /\ \A u \in Tasks \ {t} : ~(task[u].pc = "get" /\ task[u].arg = task[t].arg)
    /\ LET g == Get(PostFields, posts, {<<"id", task[t].arg>>})
       IN  task' = [task EXCEPT
              ![t].pc = "done",
              ![t].resp = IF g.raised # "" THEN Raised(g.raised)
                          ELSE view_post_body(CHOOSE r \in g.rows : TRUE)]
    /\ UNCHANGED <<app, posts, players, starts, startup, hist, posts0, players0>>

view_post_2(t) ==
    /\ task[t].handler = "view_post" /\ task[t].pc = "get"
    /\ LET g == Get(PostFields, posts, {<<"id", task[t].arg>>})
       IN  task' = [task EXCEPT
              ![t].pc = "done",
              ![t].resp = IF g.raised # "" THEN Raised(g.raised)
                          ELSE view_post_body(CHOOSE r \in g.rows : TRUE)]
    /\ UNCHANGED <<app, posts, players, starts, startup, hist, posts0, players0>>

\* get_info: player = await Player.get(id=player_id); return its fields.
get_info(t, player_id, cap) ==
    /\ Accepts(t, "get_info", cap)
    /\ LET g == Get(PlayerFields, players, {<<"id", player_id>>})
       IN  task' = [task EXCEPT ![t] =
              [Begin("get_info", player_id) EXCEPT
                  !.pc = "done", !.seen = g.rows, !.wrote = g.rows,
                  !.resp = IF g.raised # "" THEN Raised(g.raised)
                           ELSE get_info_body(CHOOSE r \in g.rows : TRUE)]]
    /\ hist' = [hist EXCEPT !.calls = @ + 1]
    /\ UNCHANGED <<app, posts, players, starts, startup, posts0, players0>>

\* upgrade_level, one round-trip per step.  First the conditional UPDATE: an
\* exception ends the request, rows_updated == 0 returns the rejection, and
\* otherwise the task goes on to "get", its second step: Player.get(id=player_id)
\* and the success body.  (The filter of the UPDATE raises, see
\* upgrade_level_filter, so the code after the UPDATE is never reached.)
upgrade_level(t, player_id, cap) ==
    IF task[t].handler = "upgrade_level" /\ task[t].pc = "get"
    THEN /\ player_id = task[t].arg
         /\ LET g == Get(PlayerFields, players, {<<"id", player_id>>})
            IN  /\ task' = [task EXCEPT
                      ![t].pc = "done",
                      ![t].resp = IF g.raised # "" THEN Raised(g.raised)
                                  ELSE upgrade_level_body(CHOOSE r \in g.rows : TRUE)]
                /\ hist' = [hist EXCEPT !.ok[player_id] =
                               IF g.raised = "" THEN @ + 1 ELSE @]
         /\ UNCHANGED <<app, posts, players, starts, startup, posts0, players0>>
    ELSE /\ Accepts(t, "upgrade_level", cap)
         /\ LET u == upgrade_level_update(players, player_id)
                r == IF u.raised # "" THEN Raised(u.raised)
                     ELSE IF u.rows = 0 THEN NotEnoughMoney ELSE NoResp
            IN  /\ players' = u.table
                /\ task' = [task EXCEPT ![t] =
                      [Begin("upgrade_level", player_id) EXCEPT
                          !.pc = IF r = NoResp THEN "get" ELSE "done",
                          !.seen = {p \in players : p.id = player_id},
                          !.wrote = {p \in u.table : p.id = player_id},
                          !.rows = u.rows,
                          !.resp = r]]
                /\ hist' = [hist EXCEPT
                      !.calls = @ + 1,
                      !.upgrade[player_id] = @ + 1,
                      !.affected[player_id] = @ + u.rows,
                      !.rejected[player_id] =
                          IF r = NotEnoughMoney THEN @ + 1 ELSE @]
         /\ UNCHANGED <<app, posts, starts, startup, posts0, players0>>

(* ---------------- specifications ---------------- *)
\* Any number of clients: up to NumTasks requests in flight, any interleaving.
Next ==
    \/ lifespan_blog
    \/ lifespan_shop
    \/ \E t \in Tasks, id \in PostIds : get_post(t, id, MaxCalls)
    \/ \E t \in Tasks, id \in PostIds : view_post_1(t, id, MaxCalls)
    \/ \E t \in Tasks : view_post_2(t)
    \/ \E t \in Tasks, id \in PlayerIds : get_info(t, id, MaxCalls)
    \/ \E t \in Tasks, id \in PlayerIds : upgrade_level(t, id, MaxCalls)

Spec == Init /\ [][Next]_vars

\* One caller of the blog service and nobody else: it views post 1, reads it
\* back when the view has returned, and so on, SeqCalls times.
seq_view == task[1].handler # "view_post" /\ view_post_1(1, 1, 2 * SeqCalls)
seq_read == task[1].handler = "view_post" /\ get_post(1, 1, 2 * SeqCalls)

SeqInit == Init /\ app = "blog"
SeqNext == lifespan_blog \/ seq_view \/ view_post_2(1) \/ seq_read

SeqSpec == SeqInit /\ [][SeqNext]_vars

(* ---------------- what the claims speak of ---------------- *)
\* The row with this id, as a set: empty or one row.
PostRow(id) == {r \in posts : r.id = id}
PlayerRow(id) == {p \in players : p.id = id}

\* The row id 1 as the requests of this run first find it: the row already
\* stored, or else the one the startup creates.
InitialPost == IF posts0 = {} THEN NewPost ELSE CHOOSE r \in posts0 : r.id = 1
InitialPlayer == IF players0 = {} THEN NewPlayer ELSE CHOOSE p \in players0 : p.id = 1

\* Requests of handler h on row id that have not responded yet.
InFlight(h, id) ==
    {t \in Tasks : task[t].handler = h /\ task[t].arg = id /\ task[t].pc = "get"}
\* Requests of handler h on row id that have responded and are still on record.
Finished(h, id) ==
    {t \in Tasks : task[t].handler = h /\ task[t].arg = id /\ task[t].pc = "done"}

(* ---------------- C1 ---------------- *)
\* C1: no lost updates.  Once every view_post request issued on the existing
\* row has completed, the stored views is its initial value plus the number of
\* those requests: none is lost, none is counted twice.
C1_NoLostUpdates ==
    (app = "blog" /\ starts >= 1 /\ InFlight("view_post", 1) = {})
        => \A r \in PostRow(1) : r.views = InitialPost.views + hist.view[1]

\* Two view_post requests that overlapped (both fetched after both had
\* incremented: they report the same value) have completed.
C1_Witness ==
    /\ app = "blog" /\ InFlight("view_post", 1) = {}
    /\ \E t, u \in Finished("view_post", 1) :
          /\ t # u
          /\ task[t].resp = task[u].resp
          /\ task[t].resp = [current_views |-> InitialPost.views + hist.view[1]]

(* ---------------- C2 ---------------- *)
\* C2: the balance is never negative: in every reachable state the stored
\* money of every Player row is >= 0, whatever upgrade_level requests ran.
C2_BalanceNeverNegative == \A p \in players : p.money >= 0

\* Two upgrade_level requests have run against a row that cannot afford COST.
C2_Witness ==
    /\ app = "shop" /\ hist.upgrade[1] >= 2
    /\ \E p \in PlayerRow(1) : p.money < COST /\ p.money >= 0
    /\ \E t \in Finished("upgrade_level", 1) : task[t].seen = PlayerRow(1)

(* ---------------- C3 ---------------- *)
\* C3: exact success count.  With initial balance B and K >= B div COST
\* upgrade_level requests, all completed, exactly B div COST of them have
\* succeeded, the others were rejected, and the balance is B minus COST times
\* the number of successes.
C3_ExactSuccessCount ==
    LET B == InitialPlayer.money
        n == B \div COST
    IN  (/\ app = "shop" /\ starts >= 1
         /\ InFlight("upgrade_level", 1) = {}
         /\ hist.upgrade[1] >= n)
        => /\ hist.ok[1] = n
           /\ hist.rejected[1] = hist.upgrade[1] - n
           /\ \A p \in PlayerRow(1) : p.money = B - n * COST /\ p.level = InitialPlayer.level + n

(* ---------------- C4 ---------------- *)
\* C4: rejection correctness.  An upgrade_level request whose update ran while
\* the row's money was below COST affected 0 rows, returned the "Not enough
\* money" body, and left the row as it was.
C4_RejectionCorrect ==
    \A t \in Tasks :
        (/\ task[t].handler = "upgrade_level" /\ task[t].pc # "idle"
         /\ \E p \in task[t].seen : p.money < COST)
        => /\ task[t].rows = 0
           /\ task[t].resp = NotEnoughMoney
           /\ task[t].wrote = task[t].seen

(* ---------------- C5 ---------------- *)
\* C5: conditional update semantics.  The update of upgrade_level affects
\* exactly the rows with id = player_id and money >= COST, 0 or 1 of them, and
\* an affected row has, after that one statement, money - COST and level + 1.
C5_ConditionalUpdate ==
    \A t \in Tasks :
        (task[t].handler = "upgrade_level" /\ task[t].pc # "idle")
        => LET hit == {p \in task[t].seen : p.money >= COST}
           IN  /\ task[t].rows = Cardinality(hit)
               /\ task[t].rows \in {0, 1}
               /\ task[t].wrote =
                     (task[t].seen \ hit) \cup
                     {[p EXCEPT !.money = @ - COST, !.level = @ + 1] : p \in hit}

(* ---------------- C6 ---------------- *)
\* The count kept of the level: the level of the Player row is its initial
\* level plus the number of upgrade_level updates that affected the row, and
\* never below the initial level.  This much holds in every reachable state,
\* with a count that stays 0.
C6_LevelInv ==
    (app = "shop" /\ starts >= 1)
       => \A p \in PlayerRow(1) :
             /\ p.level = InitialPlayer.level + hist.affected[1]
             /\ p.level >= InitialPlayer.level

C7_StartupStep ==
    (starts' = starts + 1 /\ (PostRow(1) # {} \/ PlayerRow(1) # {}))
    => /\ posts' = posts
       /\ players' = players
       /\ startup' = IF app = "blog" THEN "Blog post already exists"
                                     ELSE "User already exists"
C7_IdempotentInit == [][C7_StartupStep]_vars

\* The blog has been restarted on a post whose views requests of this run had
\* increased, and the post is still as that startup found it.
C7_Witness ==
    /\ app = "blog" /\ starts >= 2
    /\ startup = "Blog post already exists"
    /\ \E r \in hist.found : r.views > InitialPost.views /\ r \in posts

(* ---------------- C8 ---------------- *)
\* C8: sequential read-after-write.  With one caller and nothing concurrent, a
\* view_post on the existing row returns current_views one greater than the
\* views stored before the call, the get_post that follows it returns that same
\* value as views, and so after n such calls views is the initial value plus n.
C8_SeqInv ==
    /\ (task[1].handler = "view_post" /\ task[1].pc = "done")
          => \E r \in task[1].seen : task[1].resp = [current_views |-> r.views + 1]
    /\ (starts >= 1 /\ task[1].pc # "get")
          => \E r \in PostRow(1) : r.views = InitialPost.views + hist.view[1]
C8_SeqStep ==
    (task[1].handler = "view_post" /\ task[1].pc = "done"
        /\ task'[1].handler = "get_post")
    => \E r \in task[1].seen :
          /\ task'[1].pc = "done"
          /\ DOMAIN task'[1].resp = {"post_id", "title", "content", "views"}
          /\ task'[1].resp.views = r.views + 1
C8_SequentialReadAfterWrite == []C8_SeqInv /\ [][C8_SeqStep]_vars

\* From views = 0, SeqCalls sequential view_post calls, and the read after the
\* last one returns views = SeqCalls.
C8_Witness ==
    /\ posts0 = {} /\ hist.view[1] = SeqCalls
    /\ task[1].handler = "get_post" /\ task[1].pc = "done"
    /\ task[1].resp = [post_id |-> 1, title |-> NewPost.title,
                       content |-> NewPost.content, views |-> SeqCalls]

(* ---------------- C9 ---------------- *)
\* C9: the read handlers are pure lookups.  A get_post or get_info request,
\* whatever is in flight, changes no row; it returns the fields of the row
\* with its id as stored at that moment, or fails with DoesNotExist when there
\* is no such row.
C9_ReadStep ==
    \A t \in Tasks :
        (/\ hist.calls' = hist.calls + 1
         /\ Free(t) /\ \A u \in Tasks : u < t => ~Free(u)
         /\ task'[t].handler \in {"get_post", "get_info"})
        => LET id == task'[t].arg
               resp == task'[t].resp
           IN  /\ posts' = posts /\ players' = players
               /\ task'[t].pc = "done"
               /\ IF task'[t].handler = "get_post"
                  THEN IF PostRow(id) = {} THEN resp = [raised |-> "DoesNotExist"]
                       ELSE \E r \in PostRow(id) :
                               resp = [post_id |-> r.id, title |-> r.title,
                                       content |-> r.content, views |-> r.views]
                  ELSE IF PlayerRow(id) = {} THEN resp = [raised |-> "DoesNotExist"]
                       ELSE \E r \in PlayerRow(id) :
                               resp = [name |-> r.name, money |-> r.money,
                                       level |-> r.level]
C9_ReadsArePure == [][C9_ReadStep]_vars

\* A get_post has returned the row as stored, between the two round-trips of a
\* view_post on the same row that had already incremented it.
C9_Witness ==
    /\ \E t \in Finished("get_post", 1) : \E r \in PostRow(1) :
          /\ r.views > InitialPost.views
          /\ task[t].resp = [post_id |-> r.id, title |-> r.title,
                             content |-> r.content, views |-> r.views]
    /\ InFlight("view_post", 1) # {}

(* ---------------- C10 ---------------- *)
\* C10: a 0-row update is reported as a rejection.  An upgrade_level request
\* for a player_id that has no row returns the "Not enough money" body, as for
\* an insufficient balance, and creates no row.
C10_MissingRowRejected ==
    \A t \in Tasks :
        (task[t].handler = "upgrade_level" /\ task[t].pc # "idle" /\ task[t].seen = {})
        => /\ task[t].pc = "done"
           /\ task[t].rows = 0
           /\ task[t].resp = NotEnoughMoney
           /\ task[t].wrote = {}

(* ---------------- C11 ---------------- *)
\* C11: view_post by existence.  On an id whose row exists the update affects
\* that row and the request returns a current_views body; on an id with no row
\* the update affects 0 rows, the request fails with DoesNotExist, and no row
\* with that id is created.
C11_ViewPostByExistence ==
    \A t \in Tasks :
        task[t].handler = "view_post"
        => IF task[t].seen # {}
           THEN /\ task[t].rows = 1
                /\ task[t].pc \in {"get", "done"}
                /\ task[t].pc = "done" => DOMAIN task[t].resp = {"current_views"}
           ELSE /\ task[t].rows = 0
                /\ task[t].wrote = {}
                /\ PostRow(task[t].arg) = {}
                /\ task[t].pc \in {"get", "done"}
                /\ task[t].pc = "done" => task[t].resp = [raised |-> "DoesNotExist"]

\* One view_post has failed on the missing id 2 and another has succeeded on
\* the existing id 1.
C11_Witness ==
    /\ \E t \in Finished("view_post", 2) : task[t].resp = [raised |-> "DoesNotExist"]
    /\ \E u \in Finished("view_post", 1) : \E r \in PostRow(1) :
          task[u].resp = [current_views |-> r.views] /\ r.views = InitialPost.views + 1

(* ---------------- C12 ---------------- *)
\* C12: the fetch after the update is not tied to the request's own increment.
\* The second round-trip of view_post returns the views stored at that moment;
\* so the current_views returned is at least the views stored just before the
\* request's own increment plus 1.  (It can be greater, and two requests can
\* return the same value: C12_Witness.)
C12_FetchInv ==
    \A t \in Tasks :
        (task[t].handler = "view_post" /\ task[t].pc = "done" /\ task[t].seen # {})
        => \E r \in task[t].seen :
              /\ DOMAIN task[t].resp = {"current_views"}
              /\ task[t].resp.current_views >= r.views + 1
C12_FetchStep ==
    \A t \in Tasks :
        (task[t].handler = "view_post" /\ task[t].pc = "get" /\ task'[t].pc = "done"
            /\ PostRow(task[t].arg) # {})
        => \E r \in PostRow(task[t].arg) : task'[t].resp = [current_views |-> r.views]
C12_FetchNotTiedToIncrement == []C12_FetchInv /\ [][C12_FetchStep]_vars

\* Two concurrent view_post requests on row 1 have returned the same
\* current_views, which for one of them is 2 above the views it incremented.
C12_Witness ==
    \E t, u \in Finished("view_post", 1) :
        /\ t # u
        /\ task[t].resp = task[u].resp
        /\ \E r \in task[t].seen : task[t].resp = [current_views |-> r.views + 2]
        /\ \E r \in task[u].seen : task[u].resp = [current_views |-> r.views + 1]

(* ---------------- the variants kept as comments in the sources ---------------- *)
\* Requests of handler h on row id that have not responded yet, at any step.
Busy(h, id) == {t \in Tasks : task[t].handler = h /\ task[t].arg = id /\ ~Free(t)}

\* post.views += 1; await post.save(update_fields=["views"]):
\* UPDATE posts SET views = <the value in memory> WHERE id = <post.id>.
\* A change that would hide the race: the store-evaluated views = views + 1.
save_views_F(table, post) ==
    Update(PostFields, table, {<<"id", post.id>>},
           [r \in table |-> [r EXCEPT !.views = @ + 1]])
save_views(table, post) ==
    Update(PostFields, table, {<<"id", post.id>>},
           [r \in table |-> [r EXCEPT !.views = post.views + 1]])

\* "UNSAFE!! DO NOT USE", first variant of view_post.
\* First round-trip: post = await Post.get(id=post_id).
view_post_unsafe_1(t, post_id, cap) ==
    /\ Accepts(t, "view_post", cap)
    /\ LET g == Get(PostFields, posts, {<<"id", post_id>>})
       IN  task' = [task EXCEPT ![t] =
              [Begin("view_post_unsafe", post_id) EXCEPT
                  !.pc = IF g.raised # "" THEN "done" ELSE "save",
                  !.seen = g.rows,
                  !.resp = IF g.raised # "" THEN Raised(g.raised) ELSE NoResp]]
    /\ hist' = [hist EXCEPT !.calls = @ + 1, !.view[post_id] = @ + 1]
    /\ UNCHANGED <<app, posts, players, starts, startup, posts0, players0>>

\* Second round-trip: the save of the value computed in memory, and the return
\* of that value.
view_post_unsafe_2(t) ==
    /\ task[t].handler = "view_post_unsafe" /\ task[t].pc = "save"
    /\ LET post == CHOOSE r \in task[t].seen : TRUE
           u == save_views(posts, post)
       IN  /\ posts' = u.table
           /\ task' = [task EXCEPT
                 ![t].pc = "done",
                 ![t].rows = u.rows,
                 ![t].wrote = {r \in u.table : r.id = post.id},
                 ![t].resp = IF u.raised # "" THEN Raised(u.raised)
                             ELSE view_post_body([post EXCEPT !.views = @ + 1])]
    /\ UNCHANGED <<app, players, starts, startup, hist, posts0, players0>>

UnsafeNext ==
    \/ lifespan_blog
    \/ \E t \in Tasks, id \in PostIds : view_post_unsafe_1(t, id, MaxCalls)
    \/ \E t \in Tasks : view_post_unsafe_2(t)

\* The blog service with the first unsafe view_post in place of the shipped one.
UnsafeSpec == SeqInit /\ [][UnsafeNext]_vars

(* ---------------- C13 ---------------- *)
\* C13: the read-modify-write view_post loses updates.  Its save writes the
\* views it read plus 1, whatever is stored by then, and returns that value; so
\* once all N >= 1 requests on the row have completed the stored views is
\* between initial + 1 and initial + N, and initial + 1 is reached with N = 2
\* (C13_Witness).
C13_UnsafeWritesStale ==
    /\ \A t \in Tasks :
          (task[t].handler = "view_post_unsafe" /\ task[t].pc = "done"
              /\ task[t].seen # {})
          => \E r \in task[t].seen :
                /\ task[t].wrote = {[r EXCEPT !.views = @ + 1]}
                /\ task[t].resp = [current_views |-> r.views + 1]
    /\ (Busy("view_post_unsafe", 1) = {} /\ hist.view[1] >= 1)
          => \E r \in PostRow(1) :
                /\ r.views >= InitialPost.views + 1
                /\ r.views <= InitialPost.views + hist.view[1]

\* Two requests on row 1 have completed and the stored views is initial + 1:
\* one increment is lost.
C13_Witness ==
    /\ hist.view[1] = 2
    /\ Cardinality(Finished("view_post_unsafe", 1)) = 2
    /\ \E r \in PostRow(1) : r.views = InitialPost.views + 1

(* ---------------- row locks ---------------- *)
\* The tasks that hold the row lock on row id: those inside a transaction that
\* has locked the row and has not ended yet.
LockHolders(id) ==
    {t \in Tasks : task[t].arg = id /\ task[t].pc \in {"locked", "refresh", "commit"}}

\* Model.filter(**filter).select_for_update().get(): SELECT ... FOR UPDATE of one
\* row.  The row lock lasts until the transaction of the statement ends: inside
\* in_transaction() that is the end of the block; outside, the statement is its
\* own transaction and the lock ends with the statement.
\* A bug (of the belief the variant rests on): the lock outlasts the statement.
SelectForUpdate_keeps_lock(fields, table, filter, in_transaction) ==
    LET g == Get(fields, table, filter)
    IN  [raised |-> g.raised, rows |-> g.rows, locked |-> g.rows # {}]
SelectForUpdate(fields, table, filter, in_transaction) ==
    LET g == Get(fields, table, filter)
    IN  [raised |-> g.raised, rows |-> g.rows,
         locked |-> in_transaction /\ g.rows # {}]

\* "UNSAFE!! DO NOT USE", second variant of view_post: select_for_update with no
\* in_transaction().  First round-trip: the locking read, which waits while
\* another transaction holds the row lock.
view_post_lock_1(t, post_id, cap) ==
    /\ Accepts(t, "view_post", cap)
    /\ LockHolders(post_id) = {}
    /\ LET g == SelectForUpdate(PostFields, posts, {<<"id", post_id>>}, FALSE)
       IN  task' = [task EXCEPT ![t] =
              [Begin("view_post_lock", post_id) EXCEPT
                  !.pc = IF g.raised # "" THEN "done"
                         ELSE IF g.locked THEN "locked" ELSE "save",
                  !.seen = g.rows,
                  !.resp = IF g.raised # "" THEN Raised(g.raised) ELSE NoResp]]
    /\ hist' = [hist EXCEPT !.calls = @ + 1, !.view[post_id] = @ + 1]
    /\ UNCHANGED <<app, posts, players, starts, startup, posts0, players0>>

\* Second round-trip: the save (an UPDATE, which waits while another
\* transaction holds the row lock) and the return.
view_post_lock_2(t) ==
    /\ task[t].handler = "view_post_lock" /\ task[t].pc \in {"save", "locked"}
    /\ LockHolders(task[t].arg) \subseteq {t}
    /\ LET post == CHOOSE r \in task[t].seen : TRUE
           u == save_views(posts, post)
       IN  /\ posts' = u.table
           /\ task' = [task EXCEPT
                 ![t].pc = "done",
                 ![t].rows = u.rows,
                 ![t].wrote = {r \in u.table : r.id = post.id},
                 ![t].resp = IF u.raised # "" THEN Raised(u.raised)
                             ELSE view_post_body([post EXCEPT !.views = @ + 1])]
    /\ UNCHANGED <<app, players, starts, startup, hist, posts0, players0>>

LockNext ==
    \/ lifespan_blog
    \/ \E t \in Tasks, id \in PostIds : view_post_lock_1(t, id, MaxCalls)
    \/ \E t \in Tasks : view_post_lock_2(t)

\* The blog service with the second unsafe view_post in place of the shipped one.
LockSpec == SeqInit /\ [][LockNext]_vars

(* ---------------- C14 ---------------- *)
\* C14: a row lock without a transaction does not help.  After the locking read
\* of the select_for_update variant no task holds the row lock, in any state;
\* so its save, as in C13, writes the views it read plus 1 whatever is stored by
\* then, and with two concurrent requests one increment can be lost
\* (C14_Witness).
C14_LockReleasedAtOnce ==
    /\ \A id \in PostIds : LockHolders(id) = {}
    /\ \A t \in Tasks :
          (task[t].handler = "view_post_lock" /\ task[t].pc = "done"
              /\ task[t].seen # {})
          => \E r \in task[t].seen :
                /\ task[t].wrote = {[r EXCEPT !.views = @ + 1]}
                /\ task[t].resp = [current_views |-> r.views + 1]
    /\ (Busy("view_post_lock", 1) = {} /\ hist.view[1] >= 1)
          => \E r \in PostRow(1) :
                /\ r.views >= InitialPost.views + 1
                /\ r.views <= InitialPost.views + hist.view[1]

\* Two requests of the select_for_update variant on row 1 have completed, both
\* having read the same views, and the stored views is initial + 1.
C14_Witness ==
    /\ hist.view[1] = 2
    /\ \E t, u \in Finished("view_post_lock", 1) :
          t # u /\ task[t].seen = task[u].seen
    /\ \E r \in PostRow(1) : r.views = InitialPost.views + 1

(* ---------------- the "safe, but slow" variants ---------------- *)
\* view_post inside in_transaction().  First round-trip: the locking read; the
\* row stays locked.
view_post_tx_1(t, post_id, cap) ==
    /\ Accepts(t, "view_post", cap)
    /\ LockHolders(post_id) = {}
    /\ LET g == SelectForUpdate(PostFields, posts, {<<"id", post_id>>}, TRUE)
       IN  task' = [task EXCEPT ![t] =
              [Begin("view_post_tx", post_id) EXCEPT
                  !.pc = IF g.raised # "" THEN "done"
                         ELSE IF g.locked THEN "locked" ELSE "save",
                  !.seen = g.rows,
                  !.resp = IF g.raised # "" THEN Raised(g.raised) ELSE NoResp]]
    /\ hist' = [hist EXCEPT !.calls = @ + 1, !.view[post_id] = @ + 1]
    /\ UNCHANGED <<app, posts, players, starts, startup, posts0, players0>>

\* post.views += 1 and the save: the row is written and stays locked.
view_post_tx_2(t) ==
    /\ task[t].handler = "view_post_tx" /\ task[t].pc \in {"save", "locked"}
    /\ LockHolders(task[t].arg) \subseteq {t}
    /\ LET post == CHOOSE r \in task[t].seen : TRUE
           u == save_views(posts, post)
       IN  /\ posts' = u.table
           /\ task' = [task EXCEPT
                 ![t].pc = IF u.raised # "" THEN "done" ELSE "commit",
                 ![t].rows = u.rows,
                 ![t].wrote = {r \in u.table : r.id = post.id},
                 ![t].resp = IF u.raised # "" THEN Raised(u.raised) ELSE NoResp]
    /\ UNCHANGED <<app, players, starts, startup, hist, posts0, players0>>

\* The return leaves in_transaction(): the COMMIT releases the row, and the
\* response carries the views of the post object in memory.
view_post_tx_3(t) ==
    /\ task[t].handler = "view_post_tx" /\ task[t].pc = "commit"
    /\ LET post == CHOOSE r \in task[t].seen : TRUE
       IN  task' = [task EXCEPT
              ![t].pc = "done",
              ![t].resp = view_post_body([post EXCEPT !.views = @ + 1])]
    /\ UNCHANGED <<app, posts, players, starts, startup, hist, posts0, players0>>

\* upgrade_level inside in_transaction().  First round-trip: the locking read.
upgrade_level_tx_1(t, player_id, cap) ==
    /\ Accepts(t, "upgrade_level", cap)
    /\ LockHolders(player_id) = {}
    /\ LET g == SelectForUpdate(PlayerFields, players, {<<"id", player_id>>}, TRUE)
       IN  task' = [task EXCEPT ![t] =
              [Begin("upgrade_level_tx", player_id) EXCEPT
                  !.pc = IF g.raised # "" THEN "done"
                         ELSE IF g.locked THEN "locked" ELSE "check",
                  !.seen = g.rows,
                  !.resp = IF g.raised # "" THEN Raised(g.raised) ELSE NoResp]]
    /\ hist' = [hist EXCEPT !.calls = @ + 1, !.upgrade[player_id] = @ + 1]
    /\ UNCHANGED <<app, posts, players, starts, startup, posts0, players0>>

\* if player.money < COST: return the rejection (the transaction ends);
\* otherwise the UPDATE by id, in the same transaction.
upgrade_level_tx_2(t) ==
    /\ task[t].handler = "upgrade_level_tx" /\ task[t].pc \in {"check", "locked"}
    /\ LockHolders(task[t].arg) \subseteq {t}
    /\ LET player == CHOOSE p \in task[t].seen : TRUE
           id == task[t].arg
       IN  IF player.money < COST
           THEN /\ task' = [task EXCEPT ![t].pc = "done",
                                        ![t].wrote = task[t].seen,
                                        ![t].resp = NotEnoughMoney]
                /\ hist' = [hist EXCEPT !.rejected[id] = @ + 1]
                /\ UNCHANGED players
           ELSE LET u == Update(PlayerFields, players, {<<"id", player.id>>},
                                [r \in players |-> upgrade_level_set(r)])
                IN  /\ players' = u.table
                    /\ task' = [task EXCEPT
                          ![t].pc = IF u.raised # "" THEN "done" ELSE "refresh",
                          ![t].rows = u.rows,
                          ![t].wrote = {p \in u.table : p.id = id},
                          ![t].resp = IF u.raised # "" THEN Raised(u.raised)
                                      ELSE NoResp]
                    /\ hist' = [hist EXCEPT !.affected[id] = @ + u.rows]
    /\ UNCHANGED <<app, posts, starts, startup, posts0, players0>>

\* await player.refresh_from_db(): the player object takes the stored fields;
\* the row stays locked.
upgrade_level_tx_3(t) ==
    /\ task[t].handler = "upgrade_level_tx" /\ task[t].pc = "refresh"
    /\ LET g == Get(PlayerFields, players, {<<"id", task[t].arg>>})
       IN  task' = [task EXCEPT
              ![t].pc = IF g.raised # "" THEN "done" ELSE "commit",
              ![t].seen = g.rows,
              ![t].resp = IF g.raised # "" THEN Raised(g.raised) ELSE NoResp]
    /\ UNCHANGED <<app, posts, players, starts, startup, hist, posts0, players0>>

\* The return leaves in_transaction(): the COMMIT releases the row, and the
\* response carries the fields of the refreshed player object.
upgrade_level_tx_4(t) ==
    /\ task[t].handler = "upgrade_level_tx" /\ task[t].pc = "commit"
    /\ task' = [task EXCEPT
          ![t].pc = "done",
          ![t].resp = upgrade_level_body(CHOOSE p \in task[t].seen : TRUE)]
    /\ hist' = [hist EXCEPT !.ok[task[t].arg] = @ + 1]
    /\ UNCHANGED <<app, posts, players, starts, startup, posts0, players0>>

TxNext ==
    \/ lifespan_blog
    \/ lifespan_shop
    \/ \E t \in Tasks, id \in PostIds : view_post_tx_1(t, id, MaxCalls)
    \/ \E t \in Tasks : view_post_tx_2(t)
    \/ \E t \in Tasks : view_post_tx_3(t)
    \/ \E t \in Tasks, id \in PlayerIds : upgrade_level_tx_1(t, id, MaxCalls)
    \/ \E t \in Tasks : upgrade_level_tx_2(t)
    \/ \E t \in Tasks : upgrade_level_tx_3(t)
    \/ \E t \in Tasks : upgrade_level_tx_4(t)

\* Either service with its "safe, but slow" handler in place of the shipped one.
TxSpec == Init /\ [][TxNext]_vars

(* ---------------- C15 ---------------- *)
\* What N requests on row 1 lead to with the transaction-and-row-lock handlers,
\* from a player with money B: the number of debits applied.
TxDebits(B, N) == IF N < B \div COST THEN N ELSE B \div COST

\* C15: the single-statement handlers end where the transaction-and-row-lock
\* handlers end.  Once all N requests on row 1 have completed, upgrade_level has
\* succeeded TxDebits(B, N) times and rejected the other requests, money is
\* B - COST * TxDebits(B, N) and level is the initial level + TxDebits(B, N);
\* view_post has left views = initial + N; and money is never negative.
C15_SameOutcomeAsTx ==
    /\ \A p \in players : p.money >= 0
    /\ (app = "shop" /\ starts >= 1
           /\ \A t \in Tasks : task[t].arg = 1 => Free(t))
          => LET N == hist.upgrade[1]
                 n == TxDebits(InitialPlayer.money, N)
             IN  /\ hist.ok[1] = n
                 /\ hist.rejected[1] = N - n
                 /\ \E p \in PlayerRow(1) :
                       /\ p.money = InitialPlayer.money - n * COST
                       /\ p.level = InitialPlayer.level + n
    /\ (app = "blog" /\ starts >= 1
           /\ \A t \in Tasks : task[t].arg = 1 => Free(t))
          => \E r \in PostRow(1) : r.views = InitialPost.views + hist.view[1]

(* ---------------- C16 ---------------- *)
\* C16: views moves only by single increments.  In every step the views of an
\* existing Post row stays the same or goes up by exactly 1, and the row stays;
\* it goes up by 1 exactly in the steps in which one view_post request on that
\* row starts (its UPDATE), so each increase belongs to one request and each
\* request on an existing row causes one increase.
C16_ViewsStep ==
    \A id \in PostIds : \A r \in PostRow(id) :
        /\ \E q \in PostRow(id)' : q.views \in {r.views, r.views + 1}
        /\ \A q \in PostRow(id)' :
              (q.views = r.views + 1) <=> (hist'.view[id] = hist.view[id] + 1)
        /\ hist'.view[id] \in {hist.view[id], hist.view[id] + 1}
C16_SingleIncrements == [][C16_ViewsStep]_vars

\* Two view_post requests on row 1 have run their UPDATE and still await their
\* fetch; views stands 2 above where it started.
C16_Witness ==
    /\ app = "blog"
    /\ \E t, u \in InFlight("view_post", 1) : t # u
    /\ hist.view[1] = 2
    /\ \E r \in PostRow(1) : r.views = InitialPost.views + 2

(* ---------------- C17 ---------------- *)
\* C17: mutations touch only their own fields and row.  In every step every
\* stored row stays, with its id, title, content and name; views of a Post row
\* changes only in a step of a view_post request with that id, money and level
\* of a Player row change only in a step of an upgrade_level request with that
\* id; and no request adds or removes a row.
C17_FrameStep ==
    /\ \A r \in posts : \E q \in posts' :
          /\ q.id = r.id /\ q.title = r.title /\ q.content = r.content
          /\ q.views # r.views
                => \E t \in Tasks : /\ task'[t] # task[t]
                                    /\ task'[t].handler = "view_post"
                                    /\ task'[t].arg = r.id
    /\ \A p \in players : \E q \in players' :
          /\ q.id = p.id /\ q.name = p.name
          /\ (q.money # p.money \/ q.level # p.level)
                => \E t \in Tasks : /\ task'[t] # task[t]
                                    /\ task'[t].handler = "upgrade_level"
                                    /\ task'[t].arg = p.id
    /\ task' # task => /\ {r.id : r \in posts'} = {r.id : r \in posts}
                       /\ {p.id : p \in players'} = {p.id : p \in players}
                       /\ Cardinality(posts') = Cardinality(posts)
                       /\ Cardinality(players') = Cardinality(players)
C17_OwnFieldsAndRow == [][C17_FrameStep]_vars

\* A view_post request on the missing row 2 has failed and one on row 1 awaits
\* its fetch: row 1 has one more view and its other fields as created.
C17_Witness ==
    /\ \E t \in Finished("view_post", 2) : task[t].resp = Raised("DoesNotExist")
    /\ InFlight("view_post", 1) # {}
    /\ posts = {[InitialPost EXCEPT !.views = @ + 1]}

(* ---------------- C18 ---------------- *)
\* What a player is worth: its money plus the price of the levels it holds.
Worth(p) == p.money + COST * p.level

\* The equation kept: the Player row of id 1 has money + COST * level equal to
\* that of the row the startup creates, and so has every body with money and
\* level that get_info or upgrade_level has returned.  This much holds in every
\* reachable state, of a row that never changes.
C18_WorthInv ==
    /\ \A p \in PlayerRow(1) : Worth(p) = Worth(NewPlayer)
    /\ \A t \in Tasks :
          (task[t].handler \in {"get_info", "upgrade_level"} /\ task[t].arg = 1
              /\ task[t].pc = "done" /\ "money" \in DOMAIN task[t].resp)
          => Worth(task[t].resp) = Worth(NewPlayer)

upgrade_level_2(t) ==
    /\ task[t].handler = "upgrade_level" /\ task[t].pc = "get"
    /\ upgrade_level(t, task[t].arg, MaxCalls)

\* The event loop resumes every task whose awaited round-trip can complete:
\* a request that has started is not left suspended forever.  Nothing obliges
\* a client to send a request or the program to be restarted.
FairSpec ==
    /\ Spec
    /\ \A t \in Tasks : WF_vars(view_post_2(t)) /\ WF_vars(upgrade_level_2(t))

\* A request that has started and not responded can take its next step now.
C19_CanStep ==
    \A t \in Tasks :
        /\ task[t].pc \in {"idle", "get", "done"}
        /\ (task[t].pc = "get" /\ task[t].handler = "view_post")
              => ENABLED view_post_2(t)
        /\ (task[t].pc = "get" /\ task[t].handler = "upgrade_level")
              => ENABLED upgrade_level_2(t)
\* A request takes at most two steps: the one that starts it, which responds or
\* leaves it awaiting its fetch, and the fetch, which responds.
C19_TwoRoundTrips ==
    \A t \in Tasks : task'[t] # task[t] =>
        IF task[t].pc = "get"
        THEN task'[t].pc = "done" /\ task'[t].handler = task[t].handler
        ELSE task'[t].pc \in {"get", "done"}
\* C19: requests never wait on each other.  Whatever else is in flight, a
\* started view_post or upgrade_level request can always take its next step, it
\* responds within two store round-trips, and under fair scheduling it does
\* respond.
C19_NeverWait ==
    /\ []C19_CanStep
    /\ [][C19_TwoRoundTrips]_vars
    /\ \A t \in Tasks : (task[t].pc = "get") ~> (task[t].pc = "done")

\* A view_post request on row 1 has responded, with the views another request
\* on the same row has just added, while that other request still awaits its
\* fetch.
C19_Witness ==
    /\ hist.view[1] = 2
    /\ InFlight("view_post", 1) # {}
    /\ \E t \in Finished("view_post", 1) :
          task[t].resp = [current_views |-> InitialPost.views + 2]

====
